---- MODULE Spec2Model ----
(***************************************************************************)
(* FinFamily bank scraper: the ingestion and reconciliation pipeline of    *)
(* server.js and of its two other revisions kept in the repository         *)
(* (unnamed/part_000, unnamed/part_001).                                   *)
(*                                                                         *)
(* Text is modelled as a sequence of UTF-16 code units, so that            *)
(* toLowerCase, String.prototype.includes and the keyword tables are the   *)
(* ones of the source and not abstractions of them.                        *)
(***************************************************************************)
EXTENDS Integers, Sequences, FiniteSets, TLC

(***************************************************************************)
(* Bounds of the model.                                                    *)
(***************************************************************************)
\* number of text fragments a categorizer input is made of
MaxFrags == 2

(***************************************************************************)
(* The three revisions of the program.                                     *)
(***************************************************************************)
Revisions == {"server", "part_000", "part_001"}

(***************************************************************************)
(* JavaScript values of a description: a string, undefined or null.        *)
(***************************************************************************)
Undefined == [t |-> "undefined", s |-> <<>>]
Null == [t |-> "null", s |-> <<>>]
Str(s) == [t |-> "string", s |-> s]
\* !v of JavaScript for these values
Falsy(v) == v.t # "string" \/ v.s = <<>>

(***************************************************************************)
(* autoCategorizeTxn: the keyword tables, one per revision, each keyword   *)
(* the code units of the string literal in the source.                     *)
(***************************************************************************)
rules_server ==
  << [keywords |-> << <<20303,39547,19987>>,
                      <<19987,25341>>,
                      <<19987,32>>,
                      <<30742,39547,19987,20303>>,
                      <<36716,32,36716>>,
                      <<20303,32,30742,25341>>,
                      <<118,105,99,116,111,114,121>> >>,
       category |-> 1],
     [keywords |-> << <<25341>>,
                      <<39547>>,
                      <<20303>>,
                      <<19987,32>>,
                      <<36716>>,
                      <<>> >>,
       category |-> 2],
     [keywords |-> << <<>>,
                      <<39547,19987,25341>>,
                      <<112,97,114,107,105,110,103>> >>,
       category |-> 3],
     [keywords |-> << <<20303,27880>>,
                      <<25341,39547>>,
                      <<99,97,102,101>>,
                      <<112,105,122,122,97>>,
                      <<39547,29226>>,
                      <<20303,30742>>,
                      <<39547>> >>,
       category |-> 4],
     [keywords |-> << <<30742>>,
                      <<>>,
                      <<>>,
                      <<27880,32,36716>>,
                      <<19987>> >>,
       category |-> 5],
     [keywords |-> << <<25341>>,
                      <<104,111,116>>,
                      <<99,101,108,108,99,111,109>>,
                      <<112,97,114,116,110,101,114>>,
                      <<39547,19987,19987>>,
                      <<20303,25341>>,
                      <<19987>> >>,
       category |-> 6],
     [keywords |-> << <<>>,
                      <<105,110,115,117,114,97,110,99,101>>,
                      <<>>,
                      <<39547,25341,20303>>,
                      <<>>,
                      <<19987>> >>,
       category |-> 7],
     [keywords |-> << <<19987,39547>>,
                      <<25341,39547,36716,32>>,
                      <<>>,
                      <<36716>>,
                      <<36716,32>>,
                      <<36716,19987,39547>> >>,
       category |-> 8],
     [keywords |-> << <<20303>>,
                      <<25341,27880>>,
                      <<>>,
                      <<110,101,116,102,108,105,120>>,
                      <<115,112,111,116,105,102,121>>,
                      <<97,112,112,108,101>> >>,
       category |-> 9],
     [keywords |-> << <<30742,19987,36716>>,
                      <<30742,19987>>,
                      <<115,97,108,97,114,121>>,
                      <<20303>> >>,
       category |-> 10] >>

rules_part_000 ==
  << [keywords |-> << <<1505,1493,1508,1512>>,
                      <<1502,1512,1511,1496>>,
                      <<1512,1502,1497,32,1500,1493,1497>>,
                      <<1513,1493,1508,1512,1505,1500>>,
                      <<1497,1497,1504,1493,1514,32,1489,1497,1514,1503>>,
                      <<1502,1495,1505,1504,1497,32,1492,1513,1493,1511>>,
                      <<118,105,99,116,111,114,121>> >>,
       category |-> 1],
     [keywords |-> << <<1491,1500,1511>>,
                      <<1508,1494>>,
                      <<1505,1493,1504,1493,1500>>,
                      <<1491,1493,1512,32,1488,1500,1493,1503>>,
                      <<1514,1503>>,
                      <<1490,1494>> >>,
       category |-> 2],
     [keywords |-> << <<1495,1504,1497,1492>>,
                      <<1508,1488,1512,1511,1497,1504,1490>>,
                      <<112,97,114,107,105,110,103>> >>,
       category |-> 3],
     [keywords |-> << <<1502,1505,1506,1491,1492>>,
                      <<1511,1508,1492>>,
                      <<99,97,102,101>>,
                      <<112,105,122,122,97>>,
                      <<1508,1497,1510,1492>>,
                      <<1505,1493,1513,1497>>,
                      <<1502,1488,1508,1492>> >>,
       category |-> 4],
     [keywords |-> << <<1495,1513,1502,1500>>,
                      <<1502,1497,1501>>,
                      <<1490,1494>>,
                      <<1493,1506,1491,32,1489,1497,1514>>,
                      <<1488,1512,1504,1493,1504,1492>> >>,
       category |-> 5],
     [keywords |-> << <<1489,1494,1511>>,
                      <<104,111,116>>,
                      <<99,101,108,108,99,111,109>>,
                      <<112,97,114,116,110,101,114>>,
                      <<1508,1512,1496,1504,1512>>,
                      <<1505,1500,1511,1493,1501>>,
                      <<1512,1499,1489>> >>,
       category |-> 6],
     [keywords |-> << <<1489,1497,1496,1493,1495>>,
                      <<105,110,115,117,114,97,110,99,101>>,
                      <<1502,1490,1491,1500>>,
                      <<1492,1508,1504,1497,1511,1505>>,
                      <<1499,1500,1500>>,
                      <<1502,1504,1493,1512,1492>> >>,
       category |-> 7],
     [keywords |-> << <<1512,1493,1508,1488>>,
                      <<1511,1493,1508,1514,32,1495,1493,1500,1497,1501>>,
                      <<1502,1499,1489,1497>>,
                      <<1499,1500,1500,1497,1514>>,
                      <<1489,1497,1514,32,1495,1493,1500,1497,1501>>,
                      <<1514,1512,1493,1508>> >>,
       category |-> 8],
     [keywords |-> << <<1505,1497,1504,1502,1492>>,
                      <<1511,1493,1500,1504,1493,1506>>,
                      <<1488,1502,1494,1493,1503>>,
                      <<110,101,116,102,108,105,120>>,
                      <<115,112,111,116,105,102,121>>,
                      <<97,112,112,108,101>> >>,
       category |-> 9],
     [keywords |-> << <<1502,1513,1499,1493,1512,1514>>,
                      <<1513,1499,1512>>,
                      <<115,97,108,97,114,121>>,
                      <<1492,1499,1504,1505,1492>> >>,
       category |-> 10] >>

rules_part_001 ==
  << [keywords |-> << <<115,117,112,101,114>>,
                      <<109,97,114,107,101,116>>,
                      <<114,97,109,105,32,108,101,118,105>>,
                      <<115,104,117,102,101,114,115,97,108>>,
                      <<118,105,99,116,111,114,121>> >>,
       category |-> 1],
     [keywords |-> << <<102,117,101,108>>,
                      <<112,97,122>>,
                      <<115,111,110,111,108>>,
                      <<100,101,108,101,107>> >>,
       category |-> 2],
     [keywords |-> << <<112,97,114,107,105,110,103>> >>,
       category |-> 3],
     [keywords |-> << <<114,101,115,116,97,117,114,97,110,116>>,
                      <<99,97,102,101>>,
                      <<112,105,122,122,97>>,
                      <<115,117,115,104,105>> >>,
       category |-> 4],
     [keywords |-> << <<101,108,101,99,116,114,105,99>>,
                      <<119,97,116,101,114>>,
                      <<103,97,115>>,
                      <<97,114,110,111,110,97>> >>,
       category |-> 5],
     [keywords |-> << <<98,101,122,101,113>>,
                      <<104,111,116>>,
                      <<99,101,108,108,99,111,109>>,
                      <<112,97,114,116,110,101,114>> >>,
       category |-> 6],
     [keywords |-> << <<105,110,115,117,114,97,110,99,101>>,
                      <<98,105,116,117,97,99,104>> >>,
       category |-> 7],
     [keywords |-> << <<100,111,99,116,111,114>>,
                      <<109,97,99,99,97,98,105>>,
                      <<99,108,97,108,105,116>>,
                      <<104,111,115,112,105,116,97,108>> >>,
       category |-> 8],
     [keywords |-> << <<99,105,110,101,109,97>>,
                      <<97,109,97,122,111,110>>,
                      <<110,101,116,102,108,105,120>>,
                      <<115,112,111,116,105,102,121>>,
                      <<97,112,112,108,101>> >>,
       category |-> 9],
     [keywords |-> << <<115,97,108,97,114,121>>,
                      <<105,110,99,111,109,101>> >>,
       category |-> 10] >>


rules(r) ==
  CASE r = "server" -> rules_server
    [] r = "part_000" -> rules_part_000
    [] r = "part_001" -> rules_part_001

\* category: null
NoCategory == 0

\* String.prototype.toLowerCase on the code units the model uses: A-Z map to
\* a-z, Hebrew and CJK letters have no case
toLowerCase(s) ==
  [i \in 1..Len(s) |-> IF s[i] >= 65 /\ s[i] <= 90 THEN s[i] + 32 ELSE s[i]]

\* desc.includes(kw)
includes(desc, kw) ==
  \E i \in 0..(Len(desc) - Len(kw)) : SubSeq(desc, i + 1, i + Len(kw)) = kw

\* rule.keywords.some(kw => desc.includes(kw))
some(keywords, desc) ==
  \E k \in 1..Len(keywords) : includes(desc, keywords[k])

\* a variant of RuleLoop in which the last matching rule wins
RuleLoopLastMatch(rs, i, desc) ==
  LET hits == {k \in i..Len(rs) : some(rs[k].keywords, desc)}
  IN IF hits = {} THEN NoCategory
     ELSE rs[CHOOSE k \in hits : \A m \in hits : m <= k].category

RECURSIVE RuleLoop(_, _, _)
\* for (const rule of rules) { if (...) return rule.category; } return null;
RuleLoop(rs, i, desc) ==
  IF i > Len(rs) THEN NoCategory
  ELSE IF some(rs[i].keywords, desc) THEN rs[i].category
  ELSE RuleLoop(rs, i + 1, desc)

\* The result of a call: a returned category (NoCategory for null) or a thrown
\* TypeError.  server.js and part_000 declare (description = ''), which replaces
\* undefined only, so null reaches null.toLowerCase(); part_001 returns null for
\* every falsy description before any rule is read.
autoCategorizeTxn(r, description) ==
  IF r = "part_001"
  THEN IF Falsy(description)
       THEN [throws |-> FALSE, category |-> NoCategory]
       ELSE [throws |-> FALSE,
             category |-> RuleLoop(rules(r), 1, toLowerCase(description.s))]
  ELSE IF description.t = "null"
       THEN [throws |-> TRUE, category |-> NoCategory]
       ELSE [throws |-> FALSE,
             category |-> RuleLoop(rules(r), 1, toLowerCase(description.s))]

(***************************************************************************)
(* Bounds of the system model.                                             *)
(***************************************************************************)
\* requests (single syncs, sync-all calls, nightly runs, direct calls of
\* saveTransactionsToSupabase) in one behaviour
MaxSyncs == 2
\* accounts plus transactions in one scrape result of the reconciliation
\* harness
MaxItems == 3
\* calls of one sync attempt that the store answers with an error
MaxFaults == 1

(***************************************************************************)
(* Values the environment supplies.                                        *)
(***************************************************************************)
Users == {"u1", "u2"}

PROVIDER_MAP ==
  {"hapoalim", "leumi", "discount", "mizrahi", "otsarHahayal", "union",
   "beinleumi", "massad", "isracard", "cal", "max", "visaCal", "diners", "amex"}

\* provider ids a single-sync request may carry ("" is an absent field)
ProviderInputs == {"hapoalim", "bogus", ""}

\* a JavaScript number, or undefined (def = FALSE)
Num(n) == [def |-> TRUE, n |-> n]
NoNum == [def |-> FALSE, n |-> 0]
\* a || b on numbers: a when it is defined and not 0, else b
OrNum(a, b) == IF a.def /\ a.n # 0 THEN a ELSE b
\* Math.abs: NaN (def = FALSE) for undefined
MathAbs(x) == [def |-> x.def, n |-> IF x.n < 0 THEN 0 - x.n ELSE x.n]
\* account.balance || 0
balanceOrZero(account) == IF account.balance.def THEN account.balance.n ELSE 0

\* txn.date as the scraper gives it: a UTC instant (day, hour), or a value
\* new Date() cannot parse
Instant(day, hour) == [valid |-> TRUE, day |-> day, hour |-> hour]
InvalidDate == [valid |-> FALSE, day |-> 0, hour |-> 0]
\* new Date(txn.date).toISOString().split('T')[0]: the UTC calendar day, the
\* time of day dropped; the caller handles the RangeError of an invalid date
isoDay(date) == date.day

SuperMarket == <<83,117,112,101,114,77,97,114,107,101,116>>
\* the text PostgREST receives for .eq('description', undefined) and (null)
TextUndefined == <<117,110,100,101,102,105,110,101,100>>
TextNull == <<110,117,108,108>>

\* description: txn.description || <placeholder>, the placeholder literal of
\* each revision
placeholder(r) ==
  CASE r = "server" -> <<27880,20303,25341>>
    [] r = "part_000" -> <<1506,1505,1511,1492>>
    [] r = "part_001" -> <<116,114,97,110,115,97,99,116,105,111,110>>

Txn(date, description, chargedAmount, originalAmount) ==
  [date |-> date, description |-> description,
   chargedAmount |-> chargedAmount, originalAmount |-> originalAmount]

TxnDomain ==
  {Txn(d, s, Num(0 - 120), NoNum) :
     d \in {Instant(5, 22), InvalidDate},
     s \in {Str(SuperMarket), Undefined, Null}}

\* accountNumber "" stands for an absent or empty account number
Acct(accountNumber, balance, txns) ==
  [accountNumber |-> accountNumber, balance |-> balance, txns |-> txns]

Cafe == <<99,97,102,101>>

\* the amounts of a transaction as the scraper gives them: a charged amount,
\* a charged amount of 0 beside an original amount, an original amount alone
AmountPairs ==
  {<<Num(0 - 120), NoNum>>, <<Num(120), NoNum>>, <<Num(0), Num(0 - 50)>>,
   <<NoNum, Num(0 - 50)>>, <<Num(0), NoNum>>}

\* the transactions of the reconciliation harness: two instants of one day
\* and one of the next, descriptions present and absent, one of them the
\* word the filter sends for an absent description
ReconcileDomain ==
  {Txn(d, s, a[1], a[2]) :
     d \in {Instant(5, 8), Instant(5, 22), Instant(6, 8)},
     s \in {Str(SuperMarket), Str(Cafe), Str(TextUndefined), Undefined},
     a \in AmountPairs}

\* one account with one transaction or with two
ReconcileFeeds ==
  {<<Acct("A1", Num(100), <<a>>)>> : a \in ReconcileDomain}
  \cup {<<Acct("A1", Num(100), <<a, b>>)>> : a, b \in ReconcileDomain}

TxnLists(n) == UNION {[1..k -> TxnDomain] : k \in 0..n}

RECURSIVE PayloadsOf(_)
\* every scrape result of at most n items (accounts plus transactions)
PayloadsOf(n) ==
  IF n <= 0 THEN {<<>>}
  ELSE {<<>>} \cup
       UNION {UNION {{<<Acct(num, bal, tl)>> \o rest :
                        rest \in PayloadsOf(n - 1 - Len(tl))} :
                     tl \in TxnLists(n - 1)} :
              num \in {"", "A1"}, bal \in {NoNum, Num(100)}}

\* the scrape results of the system model: one account with a described and an
\* undescribed transaction; one account without a number whose transaction
\* carries an unparsable date
SysFeeds ==
  {<<Acct("A1", Num(100),
          <<Txn(Instant(5, 22), Str(SuperMarket), Num(0 - 120), NoNum),
            Txn(Instant(5, 22), Undefined, Num(0 - 120), NoNum)>>)>>,
   <<Acct("", NoNum,
          <<Txn(InvalidDate, Str(SuperMarket), Num(0 - 120), NoNum)>>)>>}

\* what scraper.scrape(credentials) resolves to: the success flag, the error
\* message ("" when the scraper gives none) and the accounts
ScrapeResults(fs) ==
  {[chrome |-> TRUE, success |-> FALSE, errorMessage |-> m, accounts |-> <<>>] :
     m \in {"", "invalid credentials"}}
  \cup {[chrome |-> TRUE, success |-> TRUE, errorMessage |-> "",
          accounts |-> p] : p \in fs}

\* part_001: getChromePath() found no browser, scraper.scrape is never called
NoChrome ==
  [chrome |-> FALSE, success |-> FALSE, errorMessage |-> "", accounts |-> <<>>]

\* a bank_connections row
Conn(user_id, provider, creds, auto_sync) ==
  [user_id |-> user_id, provider |-> provider, encrypted_credentials |-> creds,
   auto_sync |-> auto_sync, status |-> "active", last_sync |-> 0,
   error_message |-> "", accounts_count |-> 0]

\* the connections the tenants have linked: encrypted_credentials is "json"
\* (base64 of a JSON document), "garbage" (JSON.parse throws) or "null"
InitialConnections ==
  << Conn("u1", "hapoalim", "json", TRUE),
     Conn("u2", "bogus", "json", TRUE),
     Conn("u1", "leumi", "garbage", TRUE),
     Conn("u1", "bogus", "garbage", TRUE),
     Conn("u2", "hapoalim", "json", TRUE),
     Conn("u2", "leumi", "json", FALSE) >>

(***************************************************************************)
(* State.                                                                  *)
(***************************************************************************)
VARIABLES
  rev,               \* the revision that is deployed
  feeds,             \* the account lists a successful scrape may return
  accounts,          \* table accounts; a row's id is its position
  transactions,      \* table transactions
  bank_connections,  \* table bank_connections
  task,              \* the request handlers in progress
  last,              \* history: the sync attempt that concluded last
  clock,             \* the number of requests so far; stands for new Date()
  catArg,            \* categorizer harness: the argument
  catRet             \* categorizer harness: the result

vars == <<rev, feeds, accounts, transactions, bank_connections, task, last,
          clock, catArg, catRet>>

Tasks == {1, 2}
\* handlers that run without overlapping use one task
SeqTasks == {1}

\* what a handler reports about one attempt: an HTTP response, an entry of
\* the sync-all results, a line of the nightly log, the value returned or
\* thrown by a direct call
Report(channel, code, success, error, stats, saved, skipped, accountsCount) ==
  [channel |-> channel, code |-> code, success |-> success, error |-> error,
   stats |-> stats, totalSaved |-> saved, totalSkipped |-> skipped,
   accountsCount |-> accountsCount]
NoReport == Report("none", 0, FALSE, "", FALSE, 0, 0, 0)

\* history of one sync attempt: the attempt that concluded before it (prev),
\* how far its checks went, what it did to the scraper and the store, and how
\* it ended
BlankAtt ==
  [seq |-> 0, kind |-> "none", userId |-> "", provider |-> "",
   prev |-> [kind |-> "none", userId |-> "", provider |-> "", outcome |-> "none"],
   checked |-> FALSE, decoded |-> FALSE,
   scrapes |-> 0, scrapeThrew |-> FALSE, scrapeFailed |-> FALSE,
   scrapeMsg |-> "", scraped |-> 0,
   acctReads |-> 0, acctInserts |-> 0, acctUpdates |-> 0,
   txnsDue |-> 0, txnReads |-> 0, txnFound |-> 0, txnInserts |-> 0,
   threw |-> FALSE,
   statusWrites |-> 0,
   faults |-> 0, acctInsertFails |-> 0, txnErrors |-> 0, statusFailed |-> FALSE,
   outcome |-> "none", error |-> "", report |-> NoReport]

NoStatus == [status |-> "", error_message |-> "", accounts_count |-> 0]

\* history: the tables as a handler left them, kept when the store is put back
\* for a second run
NothingKept == [taken |-> FALSE, accounts |-> <<>>, transactions |-> <<>>]

IdleTask ==
  [pc |-> "idle", kind |-> "none", userId |-> "", provider |-> "",
   conns |-> <<>>, ci |-> 0, accts |-> <<>>, ai |-> 0, ti |-> 0,
   accountId |-> 0, totalSaved |-> 0, totalSkipped |-> 0,
   results |-> <<>>, log |-> <<>>, res |-> NoReport, pending |-> NoStatus,
   att |-> BlankAtt, fates |-> <<>>, kept |-> NothingKept]

(***************************************************************************)
(* Conclusion of an attempt: what each handler does when the scrape and    *)
(* the reconciliation have returned or thrown.                             *)
(***************************************************************************)
\* the attempt of tr concluded with this outcome and report
conclude(tr, outcome, report) ==
  [tr EXCEPT !.att = [@ EXCEPT !.outcome = outcome, !.error = report.error,
                               !.report = report]]

\* res.json / res.status(..).json of a single request, or the return or throw
\* of a direct call: the handler is done
respond(tr, outcome, report) ==
  [conclude(tr, outcome, report) EXCEPT !.pc = "done", !.res = report]

\* a variant of resultEntry that reports every connection as a success
resultEntryAlwaysSuccess(tr, report) ==
  [provider |-> tr.provider, userId |-> tr.userId, success |-> TRUE,
   error |-> "", stats |-> TRUE,
   totalSaved |-> report.totalSaved, totalSkipped |-> report.totalSkipped]

\* one entry of the results of sync-all, or one line of the nightly log
resultEntry(tr, report) ==
  [provider |-> tr.provider, userId |-> tr.userId, success |-> report.success,
   error |-> report.error, stats |-> report.stats,
   totalSaved |-> report.totalSaved, totalSkipped |-> report.totalSkipped]

\* a variant of nextConn that tries a failed connection again before it
\* moves on
nextConnRetries(tr, outcome, report) ==
  LET c == conclude(tr, outcome, report)
  IN [c EXCEPT !.pc = "conn",
               !.ci = IF outcome = "error" /\ Len(tr.fates) < tr.ci
                      THEN @ ELSE @ + 1,
               !.results = IF tr.kind = "syncall" /\ report.channel = "results"
                           THEN Append(@, resultEntry(tr, report)) ELSE @,
               !.log = IF tr.kind = "cron" /\ report.channel = "log"
                       THEN Append(@, resultEntry(tr, report)) ELSE @,
               !.fates = Append(@, c.att)]

\* the loop of sync-all and of the nightly job goes on to the next connection:
\* results.push in sync-all, console.log / console.error in the nightly job
nextConn(tr, outcome, report) ==
  LET c == conclude(tr, outcome, report)
  IN [c EXCEPT !.pc = "conn", !.ci = @ + 1,
               !.results = IF tr.kind = "syncall" /\ report.channel = "results"
                           THEN Append(@, resultEntry(tr, report)) ELSE @,
               !.log = IF tr.kind = "cron" /\ report.channel = "log"
                       THEN Append(@, resultEntry(tr, report)) ELSE @,
               !.fates = Append(@, c.att)]

\* saveTransactionsToSupabase returned { totalSaved, totalSkipped }
afterSave(tr) ==
  CASE tr.kind = "single" ->
         IF rev = "part_000"
         THEN [tr EXCEPT !.pc = "status",
                         !.pending = [status |-> "success", error_message |-> "",
                                      accounts_count |-> Len(tr.accts)]]
         ELSE respond(tr, "success",
                      Report("response", 200, TRUE, "", TRUE, tr.totalSaved,
                             tr.totalSkipped, Len(tr.accts)))
    [] tr.kind = "syncall" ->
         nextConn(tr, "success",
                  Report("results", 0, TRUE, "", TRUE, tr.totalSaved,
                         tr.totalSkipped, 0))
    [] tr.kind = "cron" ->
         nextConn(tr, "success", Report("log", 0, TRUE, "", FALSE, 0, 0, 0))
    [] tr.kind = "save" ->
         respond(tr, "success",
                 Report("return", 0, TRUE, "", TRUE, tr.totalSaved,
                        tr.totalSkipped, 0))

\* a variant of catchError in which the nightly job has its try / catch around
\* the loop: the first error ends the run
catchErrorNightlyStops(tr, message) ==
  CASE tr.kind = "single" ->
         IF rev = "part_000"
         THEN [tr EXCEPT !.pc = "status",
                         !.pending = [status |-> "error",
                                      error_message |-> message,
                                      accounts_count |-> 0]]
         ELSE respond(tr, "error",
                      Report("response", 500, FALSE, message, FALSE, 0, 0, 0))
    [] tr.kind = "syncall" ->
         nextConn(tr, "error",
                  Report("results", 0, FALSE, message, FALSE, 0, 0, 0))
    [] OTHER ->
         respond(tr, "error", Report("log", 0, FALSE, message, FALSE, 0, 0, 0))

\* a variant of catchError without the try / catch inside the loops: the
\* error of one connection ends the whole batch
catchErrorRethrow(tr, message) ==
  IF tr.kind = "save"
  THEN respond(tr, "error", Report("throw", 0, FALSE, message, FALSE, 0, 0, 0))
  ELSE respond(tr, "error",
               Report("response", 500, FALSE, message, FALSE, 0, 0, 0))

\* the catch block that receives an error thrown by the credential decoding,
\* by scrapeProvider or by saveTransactionsToSupabase
catchError(tr, message) ==
  CASE tr.kind = "single" ->
         IF rev = "part_000"
         THEN [tr EXCEPT !.pc = "status",
                         !.pending = [status |-> "error",
                                      error_message |-> message,
                                      accounts_count |-> 0]]
         ELSE respond(tr, "error",
                      Report("response", 500, FALSE, message, FALSE, 0, 0, 0))
    [] tr.kind = "syncall" ->
         nextConn(tr, "error",
                  Report("results", 0, FALSE, message, FALSE, 0, 0, 0))
    [] tr.kind = "cron" ->
         nextConn(tr, "error", Report("log", 0, FALSE, message, FALSE, 0, 0, 0))
    [] tr.kind = "save" ->
         respond(tr, "error", Report("throw", 0, FALSE, message, FALSE, 0, 0, 0))

(***************************************************************************)
(* saveTransactionsToSupabase: the two loops.                              *)
(***************************************************************************)
\* for (const account of accounts): the account at ai, or the return
atAccount(tr) ==
  IF tr.ai > Len(tr.accts) THEN afterSave(tr)
  ELSE [tr EXCEPT !.pc = "acct_lookup", !.accountId = 0, !.ti = 0]

nextAccount(tr) == atAccount([tr EXCEPT !.ai = @ + 1])

\* for (const txn of (account.txns || [])): the transaction at ti, or on to
\* the next account
atTxn(tr) ==
  IF tr.ti > Len(tr.accts[tr.ai].txns) THEN nextAccount(tr)
  ELSE [tr EXCEPT !.pc = "txn_lookup"]

nextTxn(tr) == atTxn([tr EXCEPT !.ti = @ + 1])

\* a variant of enterTxns without the check of accountId
enterTxnsUnchecked(tr) ==
  atTxn([tr EXCEPT !.ti = 1,
                   !.att.txnsDue = @ + Len(tr.accts[tr.ai].txns)])

\* if (!accountId) continue; and then the first transaction
enterTxns(tr) ==
  IF tr.accountId = 0 THEN nextAccount(tr)
  ELSE atTxn([tr EXCEPT !.ti = 1,
                        !.att.txnsDue = @ + Len(tr.accts[tr.ai].txns)])

\* the call: let totalSaved = 0; let totalSkipped = 0; and the first account
enterSave(tr, accts) ==
  atAccount([tr EXCEPT !.accts = accts, !.totalSaved = 0, !.totalSkipped = 0,
                       !.ai = 1])

\* the lookup without the fallback: account.accountNumber alone
lookupAccountNumberNoFallback(account, providerName) == account.accountNumber

\* account.accountNumber || providerName, in the lookup
lookupAccountNumber(account, providerName) ==
  IF account.accountNumber # "" THEN account.accountNumber ELSE providerName

\* account.accountNumber || providerName, in the insert
insertAccountNumber(account, providerName) ==
  IF account.accountNumber # "" THEN account.accountNumber ELSE providerName

\* a variant of accountMatches that looks the account number up across the
\* tenants
accountMatchesAnyTenant(userId, number) ==
  {i \in 1..Len(accounts) : accounts[i].account_number = number}

\* .from('accounts').select('id').eq('user_id', ..).eq('account_number', ..)
accountMatches(userId, number) ==
  {i \in 1..Len(accounts) :
     accounts[i].user_id = userId /\ accounts[i].account_number = number}

\* .single(): the row when exactly one row matches, else data is null (0)
single(matches) ==
  IF Cardinality(matches) = 1 THEN CHOOSE i \in matches : TRUE ELSE 0

\* the text of the filter .eq('description', txn.description)
filterText(description) ==
  CASE description.t = "undefined" -> TextUndefined
    [] description.t = "null" -> TextNull
    [] OTHER -> description.s

\* Math.abs(txn.chargedAmount || txn.originalAmount)
txnAmount(txn) == MathAbs(OrNum(txn.chargedAmount, txn.originalAmount))

\* (txn.chargedAmount || txn.originalAmount) < 0 ? 'expense' : 'income'
txnType(txn) ==
  LET x == OrNum(txn.chargedAmount, txn.originalAmount)
  IN IF x.def /\ x.n < 0 THEN "expense" ELSE "income"

\* txn.description || <placeholder>
storedDescription(txn) ==
  IF Falsy(txn.description) THEN placeholder(rev) ELSE txn.description.s

\* .from('transactions').select('id').eq('user_id', ..).eq('account_id', ..)
\*   .eq('amount', ..).eq('date', ..).eq('description', ..)
transactionMatches(userId, accountId, txn) ==
  {i \in 1..Len(transactions) :
     /\ transactions[i].user_id = userId
     /\ transactions[i].account_id = accountId
     /\ txnAmount(txn).def
     /\ transactions[i].amount = txnAmount(txn)
     /\ transactions[i].date = isoDay(txn.date)
     /\ transactions[i].description = filterText(txn.description)}

\* the row of .from('transactions').insert({...})
transactionRow(userId, accountId, txn) ==
  [user_id |-> userId, account_id |-> accountId, amount |-> txnAmount(txn),
   type |-> txnType(txn), description |-> storedDescription(txn),
   date |-> isoDay(txn.date),
   category_id |-> autoCategorizeTxn(rev, txn.description).category]

\* the row of .from('accounts').insert({...})
accountRow(id, userId, account, providerName) ==
  [id |-> id, user_id |-> userId,
   name |-> <<providerName,
              IF account.accountNumber # "" THEN account.accountNumber
              ELSE "main">>,
   account_number |-> insertAccountNumber(account, providerName),
   balance |-> balanceOrZero(account), last_sync |-> clock]

\* a variant of scrapeProvider that does not look at result.success
scrapeProviderUnchecked(result) ==
  [throws |-> ~result.chrome,
   message |-> IF ~result.chrome THEN "No Chrome binary available" ELSE "",
   accounts |-> result.accounts]

\* const result = await scraper.scrape(credentials); throw or return
scrapeProvider(result) ==
  [throws |-> ~result.chrome \/ ~result.success,
   message |-> IF ~result.chrome THEN "No Chrome binary available"
               ELSE IF result.errorMessage # "" THEN result.errorMessage
               ELSE "Scraping failed",
   accounts |-> result.accounts]

PrevOf(a) ==
  [kind |-> a.kind, userId |-> a.userId, provider |-> a.provider,
   outcome |-> a.outcome]

\* a handler that starts: its locals and the history of its attempt
startTask(kind, userId, provider) ==
  [IdleTask EXCEPT !.kind = kind, !.userId = userId, !.provider = provider,
                   !.att = [BlankAtt EXCEPT !.seq = clock + 1, !.kind = kind,
                                            !.userId = userId,
                                            !.provider = provider,
                                            !.prev = PrevOf(last),
                                            !.outcome = "running"]]

\* the attempt that concluded last
lastOf(tr) ==
  IF tr.att.outcome \in {"running", "none"} THEN last ELSE tr.att

CanStart(t) ==
  /\ task[t].pc \in {"idle", "done"}
  /\ clock < MaxSyncs

(***************************************************************************)
(* Steps of saveTransactionsToSupabase, one per awaited store call.        *)
(***************************************************************************)
AccountLookup(t) ==
  LET tr == task[t]
      account == tr.accts[tr.ai]
      existingAccount ==
        single(accountMatches(tr.userId,
                              lookupAccountNumber(account, tr.provider)))
  IN /\ tr.pc = "acct_lookup"
     /\ task' = [task EXCEPT ![t] =
          [tr EXCEPT !.accountId = existingAccount,
                     !.pc = IF existingAccount # 0 THEN "acct_update"
                            ELSE "acct_insert",
                     !.att.acctReads = @ + 1]]
     /\ UNCHANGED <<rev, feeds, accounts, transactions, bank_connections, last,
                    clock, catArg, catRet>>

\* a variant of updatedAccount that also writes the account number the bank
\* gave
updatedAccountWithNumber(row, account) ==
  [row EXCEPT !.balance = balanceOrZero(account), !.last_sync = clock,
              !.account_number = account.accountNumber]

\* .update({ balance: account.balance || 0, last_sync: new Date() })
updatedAccount(row, account) ==
  [row EXCEPT !.balance = balanceOrZero(account), !.last_sync = clock]

AccountUpdate(t) ==
  LET tr == task[t]
      account == tr.accts[tr.ai]
      new == enterTxns([tr EXCEPT !.att.acctUpdates = @ + 1])
  IN /\ tr.pc = "acct_update"
     /\ accounts' = [i \in 1..Len(accounts) |->
                       IF accounts[i].id = tr.accountId
                       THEN updatedAccount(accounts[i], account)
                       ELSE accounts[i]]
     /\ task' = [task EXCEPT ![t] = new]
     /\ last' = lastOf(new)
     /\ UNCHANGED <<rev, feeds, transactions, bank_connections, clock, catArg,
                    catRet>>

AccountInsert(t) ==
  LET tr == task[t]
      account == tr.accts[tr.ai]
      newAccount == accountRow(Len(accounts) + 1, tr.userId, account, tr.provider)
      new == enterTxns([tr EXCEPT !.accountId = newAccount.id,
                                  !.att.acctInserts = @ + 1])
  IN /\ tr.pc = "acct_insert"
     /\ accounts' = Append(accounts, newAccount)
     /\ task' = [task EXCEPT ![t] = new]
     /\ last' = lastOf(new)
     /\ UNCHANGED <<rev, feeds, transactions, bank_connections, clock, catArg,
                    catRet>>

\* a variant of TxnLookup in which the list of an account is all or nothing:
\* the error of one transaction takes back the rows this call had inserted
TxnLookupRollsBack(t) ==
  LET tr == task[t]
      txn == tr.accts[tr.ai].txns[tr.ti]
      existing == single(transactionMatches(tr.userId, tr.accountId, txn))
      read == [tr EXCEPT !.att.txnReads = @ + 1]
      throws == ~txn.date.valid
                  \/ (existing = 0
                        /\ autoCategorizeTxn(rev, txn.description).throws)
      new ==
        IF ~txn.date.valid
        THEN catchError([tr EXCEPT !.att.threw = TRUE],
                        "RangeError: Invalid time value")
        ELSE IF existing # 0
        THEN nextTxn([read EXCEPT !.totalSkipped = @ + 1,
                                  !.att.txnFound = @ + 1])
        ELSE IF autoCategorizeTxn(rev, txn.description).throws
        THEN catchError([read EXCEPT !.att.threw = TRUE],
                        "TypeError: Cannot read properties of null")
        ELSE [read EXCEPT !.pc = "txn_insert"]
  IN /\ tr.pc = "txn_lookup"
     /\ task' = [task EXCEPT ![t] = new]
     /\ last' = lastOf(new)
     /\ transactions' =
          IF throws
          THEN SubSeq(transactions, 1, Len(transactions) - tr.att.txnInserts)
          ELSE transactions
     /\ UNCHANGED <<rev, feeds, accounts, bank_connections, clock, catArg,
                    catRet>>

TxnLookup(t) ==
  LET tr == task[t]
      txn == tr.accts[tr.ai].txns[tr.ti]
      existing == single(transactionMatches(tr.userId, tr.accountId, txn))
      read == [tr EXCEPT !.att.txnReads = @ + 1]
      new ==
        IF ~txn.date.valid
        THEN catchError([tr EXCEPT !.att.threw = TRUE],
                        "RangeError: Invalid time value")
        ELSE IF existing # 0
        THEN nextTxn([read EXCEPT !.totalSkipped = @ + 1,
                                  !.att.txnFound = @ + 1])
        ELSE IF autoCategorizeTxn(rev, txn.description).throws
        THEN catchError([read EXCEPT !.att.threw = TRUE],
                        "TypeError: Cannot read properties of null")
        ELSE [read EXCEPT !.pc = "txn_insert"]
  IN /\ tr.pc = "txn_lookup"
     /\ task' = [task EXCEPT ![t] = new]
     /\ last' = lastOf(new)
     /\ UNCHANGED <<rev, feeds, accounts, transactions, bank_connections, clock,
                    catArg, catRet>>

\* a variant of insertTransaction for a table with a unique key on the five
\* columns: the insert of a row that is there already adds nothing
insertTransactionUnique(rows, row) ==
  IF \E i \in 1..Len(rows) :
       /\ rows[i].user_id = row.user_id
       /\ rows[i].account_id = row.account_id
       /\ rows[i].amount = row.amount
       /\ rows[i].date = row.date
       /\ rows[i].description = row.description
  THEN rows
  ELSE Append(rows, row)

\* .from('transactions').insert({...}): a plain insert, no onConflict
insertTransaction(rows, row) == Append(rows, row)

TxnInsert(t) ==
  LET tr == task[t]
      txn == tr.accts[tr.ai].txns[tr.ti]
      new == nextTxn([tr EXCEPT !.totalSaved = @ + 1, !.att.txnInserts = @ + 1])
  IN /\ tr.pc = "txn_insert"
     /\ transactions' =
          insertTransaction(transactions,
                            transactionRow(tr.userId, tr.accountId, txn))
     /\ task' = [task EXCEPT ![t] = new]
     /\ last' = lastOf(new)
     /\ UNCHANGED <<rev, feeds, accounts, bank_connections, clock, catArg,
                    catRet>>

(***************************************************************************)
(* The handlers.                                                           *)
(***************************************************************************)
\* app.post('/scrape') up to the call of scrapeProvider.  server.js and
\* part_001 take the user from the verified token (authOk and a user id);
\* part_000 compares an API key and takes userId from the body.
SingleRequest(t) ==
  \E authOk \in BOOLEAN, userId \in Users \cup {""},
     provider \in ProviderInputs, hasCredentials \in BOOLEAN :
    LET tr == startTask("single", userId, provider)
        unauthorized ==
          IF rev = "part_000" THEN ~authOk ELSE ~authOk \/ userId = ""
        missing ==
          IF rev = "part_000"
          THEN userId = "" \/ provider = "" \/ ~hasCredentials
          ELSE provider = "" \/ ~hasCredentials
        checked == [tr EXCEPT !.att.checked = TRUE, !.att.decoded = TRUE]
        new ==
          IF unauthorized
          THEN respond(tr, "rejected",
                       Report("response", 401, FALSE, "Unauthorized", FALSE,
                              0, 0, 0))
          ELSE IF missing
          THEN respond(tr, "rejected",
                       Report("response", 400, FALSE, "Missing fields", FALSE,
                              0, 0, 0))
          ELSE IF provider \notin PROVIDER_MAP
          THEN respond(checked, "error",
                       Report("response", 400, FALSE, "Unsupported provider",
                              FALSE, 0, 0, 0))
          ELSE [checked EXCEPT !.pc = "scrape"]
    IN /\ CanStart(t)
       /\ clock' = clock + 1
       /\ task' = [task EXCEPT ![t] = new]
       /\ last' = lastOf(new)
       /\ UNCHANGED <<rev, feeds, accounts, transactions, bank_connections,
                      catArg, catRet>>

\* await scrapeProvider(providerType, credentials) settles, and the handler
\* runs on to its next awaited call
ScrapeReturn(t) ==
  \E result \in ScrapeResults(feeds)
                 \cup (IF rev = "part_001" THEN {NoChrome} ELSE {}) :
    LET tr == [task[t] EXCEPT !.att.scrapes = @ + 1,
                              !.att.scrapeThrew = ~result.chrome,
                              !.att.scrapeFailed =
                                result.chrome /\ ~result.success,
                              !.att.scrapeMsg = result.errorMessage,
                              !.att.scraped = Len(result.accounts)]
        scraped == scrapeProvider(result)
        new == IF scraped.throws THEN catchError(tr, scraped.message)
               ELSE enterSave(tr, scraped.accounts)
    IN /\ task[t].pc = "scrape"
       /\ task' = [task EXCEPT ![t] = new]
       /\ last' = lastOf(new)
       /\ UNCHANGED <<rev, feeds, accounts, transactions, bank_connections,
                      clock, catArg, catRet>>

\* a variant of upsertStatus that stamps success whatever the attempt did
upsertStatusAlwaysSuccess(conns, userId, provider, pending, autoDefault) ==
  LET hit == {i \in 1..Len(conns) :
                conns[i].user_id = userId /\ conns[i].provider = provider}
      set(row) == [row EXCEPT !.last_sync = clock, !.status = "success",
                              !.accounts_count = pending.accounts_count]
  IN IF hit # {}
     THEN [i \in 1..Len(conns) |-> IF i \in hit THEN set(conns[i]) ELSE conns[i]]
     ELSE Append(conns, set([Conn(userId, provider, "null", autoDefault)
                               EXCEPT !.status = ""]))

\* part_000 only: the upsert of the connection status on (user_id, provider),
\* then the response.  A missing row is inserted with the columns given; its
\* auto_sync is the default of a schema the repository does not hold.
upsertStatus(conns, userId, provider, pending, autoDefault) ==
  LET hit == {i \in 1..Len(conns) :
                conns[i].user_id = userId /\ conns[i].provider = provider}
      set(row) ==
        IF pending.status = "success"
        THEN [row EXCEPT !.last_sync = clock, !.status = "success",
                         !.accounts_count = pending.accounts_count]
        ELSE [row EXCEPT !.last_sync = clock, !.status = "error",
                         !.error_message = pending.error_message]
  IN IF hit # {}
     THEN [i \in 1..Len(conns) |-> IF i \in hit THEN set(conns[i]) ELSE conns[i]]
     ELSE Append(conns, set([Conn(userId, provider, "null", autoDefault)
                               EXCEPT !.status = ""]))

\* a variant of statusResponse in which the error of the status write is
\* thrown: after a successful reconciliation it lands in the catch block,
\* which writes the status again and answers 500
statusResponseRaises(tr) ==
  IF tr.att.statusFailed /\ tr.pending.status = "success"
  THEN [tr EXCEPT !.pc = "status",
                  !.pending = [status |-> "error",
                               error_message |-> "upsert failed",
                               accounts_count |-> 0]]
  ELSE IF tr.pending.status = "success"
  THEN respond(tr, "success",
               Report("response", 200, TRUE, "", TRUE, tr.totalSaved,
                      tr.totalSkipped, Len(tr.accts)))
  ELSE respond(tr, "error",
               Report("response", 500, FALSE, tr.pending.error_message,
                      FALSE, 0, 0, 0))

\* what follows the awaited upsert, whose result the handler does not read:
\* res.json({ success: true, ... }) in the try block,
\* res.status(500).json({ success: false, error }) in the catch block
statusResponse(tr) ==
  IF tr.pending.status = "success"
  THEN respond(tr, "success",
               Report("response", 200, TRUE, "", TRUE, tr.totalSaved,
                      tr.totalSkipped, Len(tr.accts)))
  ELSE respond(tr, "error",
               Report("response", 500, FALSE, tr.pending.error_message,
                      FALSE, 0, 0, 0))

StatusWrite(t) ==
  LET tr == [task[t] EXCEPT !.att.statusWrites = @ + 1]
      exists == \E i \in 1..Len(bank_connections) :
                   /\ bank_connections[i].user_id = tr.userId
                   /\ bank_connections[i].provider = tr.provider
      new == statusResponse(tr)
  IN /\ task[t].pc = "status"
     /\ \E autoDefault \in (IF exists THEN {FALSE} ELSE BOOLEAN) :
          bank_connections' =
            upsertStatus(bank_connections, tr.userId, tr.provider, tr.pending,
                         autoDefault)
     /\ task' = [task EXCEPT ![t] = new]
     /\ last' = lastOf(new)
     /\ UNCHANGED <<rev, feeds, accounts, transactions, clock, catArg, catRet>>

\* the connections sync-all selects: part_000 also filters on status 'active'
syncAllEligible(conn) ==
  IF rev = "part_000" THEN conn.status = "active" /\ conn.auto_sync
  ELSE conn.auto_sync

\* the connections the nightly job selects
cronEligible(conn) == conn.auto_sync

\* app.post('/sync-all') up to the loop
SyncAllRequest(t) ==
  \E keyOk \in BOOLEAN :
    LET tr == startTask("syncall", "", "")
        new ==
          IF ~keyOk
          THEN respond(tr, "rejected",
                       Report("response", 401, FALSE, "Unauthorized", FALSE,
                              0, 0, 0))
          ELSE [tr EXCEPT !.pc = "conn", !.ci = 1, !.att = BlankAtt,
                          !.conns = SelectSeq(bank_connections, syncAllEligible)]
    IN /\ CanStart(t)
       /\ clock' = clock + 1
       /\ task' = [task EXCEPT ![t] = new]
       /\ last' = lastOf(new)
       /\ UNCHANGED <<rev, feeds, accounts, transactions, bank_connections,
                      catArg, catRet>>

\* cron.schedule('0 2 * * *', ...) fires, up to the loop
CronFire(t) ==
  LET tr == startTask("cron", "", "")
      new == [tr EXCEPT !.pc = "conn", !.ci = 1, !.att = BlankAtt,
                        !.conns = SelectSeq(bank_connections, cronEligible)]
  IN /\ CanStart(t)
     /\ clock' = clock + 1
     /\ task' = [task EXCEPT ![t] = new]
     /\ UNCHANGED <<rev, feeds, accounts, transactions, bank_connections, last,
                    catArg, catRet>>

\* JSON.parse(Buffer.from(conn.encrypted_credentials, 'base64').toString())
decodeError(conn) ==
  CASE conn.encrypted_credentials = "json" -> ""
    [] conn.encrypted_credentials = "null" ->
         "TypeError: The first argument must be of type string"
    [] OTHER -> "SyntaxError: Unexpected token"

\* a variant of skipConn without the check of the provider id: the loop goes
\* on to the scrape
skipConnScrapes(tr) == [tr EXCEPT !.pc = "scrape"]

\* if (!providerType) continue;
skipConn(tr) ==
  LET c == conclude(tr, "skipped", NoReport)
  IN [c EXCEPT !.pc = "conn", !.ci = @ + 1, !.fates = Append(@, c.att)]

\* the loop over the connections: the next connection up to its scrape, or
\* the end of the batch (res.json({ success: true, results }) in sync-all,
\* the closing log line in the nightly job)
BatchNext(t) ==
  LET tr == task[t]
      conn == tr.conns[tr.ci]
      begun == [tr EXCEPT !.userId = conn.user_id, !.provider = conn.provider,
                          !.att = [BlankAtt EXCEPT !.seq = clock,
                                                   !.kind = tr.kind,
                                                   !.userId = conn.user_id,
                                                   !.provider = conn.provider,
                                                   !.prev = PrevOf(last),
                                                   !.outcome = "running"]]
      decoded == [begun EXCEPT !.att.decoded = TRUE]
      checked == [decoded EXCEPT !.att.checked = TRUE]
      new ==
        IF tr.ci > Len(tr.conns)
        THEN [tr EXCEPT !.pc = "done",
                        !.res = IF tr.kind = "syncall"
                                THEN Report("response", 200, TRUE, "", FALSE,
                                            0, 0, 0)
                                ELSE Report("log", 0, TRUE, "", FALSE, 0, 0, 0)]
        ELSE IF decodeError(conn) # ""
        THEN catchError(begun, decodeError(conn))
        ELSE IF conn.provider \notin PROVIDER_MAP
        THEN skipConn(checked)
        ELSE [checked EXCEPT !.pc = "scrape"]
  IN /\ tr.pc = "conn"
     /\ task' = [task EXCEPT ![t] = new]
     /\ last' = lastOf(new)
     /\ UNCHANGED <<rev, feeds, accounts, transactions, bank_connections, clock,
                    catArg, catRet>>

\* a direct call saveTransactionsToSupabase(userId, accounts, providerName)
SaveCall(t) ==
  \E accts \in feeds, userId \in Users :
    LET new == enterSave(startTask("save", userId, "hapoalim"), accts)
    IN /\ CanStart(t)
       /\ clock' = clock + 1
       /\ task' = [task EXCEPT ![t] = new]
       /\ last' = lastOf(new)
       /\ UNCHANGED <<rev, feeds, accounts, transactions, bank_connections,
                      catArg, catRet>>

(***************************************************************************)
(* The same awaited store calls answered with an error.  supabase-js       *)
(* resolves every call to { data, error } and does not throw: data is null *)
(* and the table is left as it was.                                        *)
(***************************************************************************)
\* the store may still fail a call of this attempt
CanFail(tr) == tr.att.faults < MaxFaults

\* the history of a call that the store answered with an error
failed(tr) == [tr EXCEPT !.att.faults = @ + 1]

\* the account lookup fails: existingAccount is null, the else branch runs
AccountLookupFails(t) ==
  LET tr == failed(task[t])
  IN /\ task[t].pc = "acct_lookup"
     /\ CanFail(task[t])
     /\ task' = [task EXCEPT ![t] =
          [tr EXCEPT !.accountId = 0, !.pc = "acct_insert",
                     !.att.acctReads = @ + 1]]
     /\ UNCHANGED <<rev, feeds, accounts, transactions, bank_connections, last,
                    clock, catArg, catRet>>

\* the account update fails: its result is not read
AccountUpdateFails(t) ==
  LET new == enterTxns(failed(task[t]))
  IN /\ task[t].pc = "acct_update"
     /\ CanFail(task[t])
     /\ task' = [task EXCEPT ![t] = new]
     /\ last' = lastOf(new)
     /\ UNCHANGED <<rev, feeds, accounts, transactions, bank_connections, clock,
                    catArg, catRet>>

\* the account insert fails: newAccount is null and accountId undefined
AccountInsertFails(t) ==
  LET new == enterTxns([failed(task[t]) EXCEPT !.accountId = 0,
                                               !.att.acctInsertFails = @ + 1])
  IN /\ task[t].pc = "acct_insert"
     /\ CanFail(task[t])
     /\ task' = [task EXCEPT ![t] = new]
     /\ last' = lastOf(new)
     /\ UNCHANGED <<rev, feeds, accounts, transactions, bank_connections, clock,
                    catArg, catRet>>

\* the duplicate lookup fails: existing is null, the insert follows
TxnLookupFails(t) ==
  LET tr == task[t]
      txn == tr.accts[tr.ai].txns[tr.ti]
      read == [failed(tr) EXCEPT !.att.txnReads = @ + 1,
                                 !.att.txnErrors = @ + 1]
      new ==
        IF autoCategorizeTxn(rev, txn.description).throws
        THEN catchError([read EXCEPT !.att.threw = TRUE],
                        "TypeError: Cannot read properties of null")
        ELSE [read EXCEPT !.pc = "txn_insert"]
  IN /\ tr.pc = "txn_lookup"
     /\ CanFail(tr)
     /\ txn.date.valid
     /\ task' = [task EXCEPT ![t] = new]
     /\ last' = lastOf(new)
     /\ UNCHANGED <<rev, feeds, accounts, transactions, bank_connections, clock,
                    catArg, catRet>>

\* the transaction insert fails: its result is not read, totalSaved++ runs
TxnInsertFails(t) ==
  LET new == nextTxn([failed(task[t]) EXCEPT !.totalSaved = @ + 1,
                                             !.att.txnErrors = @ + 1])
  IN /\ task[t].pc = "txn_insert"
     /\ CanFail(task[t])
     /\ task' = [task EXCEPT ![t] = new]
     /\ last' = lastOf(new)
     /\ UNCHANGED <<rev, feeds, accounts, transactions, bank_connections, clock,
                    catArg, catRet>>

\* part_000: the upsert of the connection status fails
StatusWriteFails(t) ==
  LET new == statusResponse([failed(task[t]) EXCEPT
                               !.att.statusWrites = @ + 1,
                               !.att.statusFailed = TRUE])
  IN /\ task[t].pc = "status"
     /\ CanFail(task[t])
     /\ task' = [task EXCEPT ![t] = new]
     /\ last' = lastOf(new)
     /\ UNCHANGED <<rev, feeds, accounts, transactions, bank_connections, clock,
                    catArg, catRet>>

(***************************************************************************)
(* Harness of the pure function autoCategorizeTxn.                         *)
(***************************************************************************)
CatPending == [done |-> FALSE, throws |-> FALSE, category |-> NoCategory]

\* the pieces the descriptions of the harness are made of: keywords of several
\* rules in several cases, halves of a keyword, letters of no keyword
Fragments ==
  { <<83,117,112,101,114>>,           \* Super
    <<99,97,102,101>>,                \* cafe
    <<80,65,82,75,73,78,71>>,         \* PARKING
    <<104,111,116>>,                  \* hot
    <<115,97,108>>,                   \* sal
    <<97,114,121>>,                   \* ary
    <<113,119,106>>,                  \* qwj
    <<1490,1494>>,                    \* part_000: a keyword of rules 2 and 5
    <<19987>> }                       \* server.js: a keyword of rule 5

RECURSIVE Texts(_)
\* the concatenations of at most n fragments
Texts(n) ==
  IF n = 0 THEN {<<>>}
  ELSE Texts(n - 1) \cup {s \o f : s \in Texts(n - 1), f \in Fragments}

CatInputs == {Undefined, Null} \cup {Str(s) : s \in Texts(MaxFrags)}

Categorize ==
  /\ ~catRet.done
  /\ catRet' = [done |-> TRUE,
                throws |-> autoCategorizeTxn(rev, catArg).throws,
                category |-> autoCategorizeTxn(rev, catArg).category]
  /\ UNCHANGED <<rev, feeds, accounts, transactions, bank_connections, task,
                 last, clock, catArg>>

(***************************************************************************)
(* Specifications.                                                         *)
(***************************************************************************)
InitStore ==
  /\ accounts = <<>>
  /\ transactions = <<>>
  /\ bank_connections = InitialConnections
  /\ task = [t \in Tasks |-> IdleTask]
  /\ last = BlankAtt
  /\ clock = 0

\* the server: requests and nightly runs that do not overlap, a store that
\* answers every call
Init ==
  /\ rev \in Revisions
  /\ feeds = SysFeeds
  /\ InitStore
  /\ catArg = Undefined
  /\ catRet = CatPending

Next ==
  \E t \in SeqTasks :
    \/ SingleRequest(t)
    \/ SyncAllRequest(t)
    \/ CronFire(t)
    \/ BatchNext(t)
    \/ ScrapeReturn(t)
    \/ AccountLookup(t)
    \/ AccountUpdate(t)
    \/ AccountInsert(t)
    \/ TxnLookup(t)
    \/ TxnInsert(t)
    \/ StatusWrite(t)

Spec == Init /\ [][Next]_vars

\* saveTransactionsToSupabase called again and again with one list of accounts
InitSave ==
  /\ rev \in Revisions
  /\ feeds \in {{p} : p \in PayloadsOf(MaxItems)}
  /\ InitStore
  /\ catArg = Undefined
  /\ catRet = CatPending

NextSave ==
  \E t \in SeqTasks :
    \/ SaveCall(t)
    \/ AccountLookup(t)
    \/ AccountUpdate(t)
    \/ AccountInsert(t)
    \/ TxnLookup(t)
    \/ TxnInsert(t)

SpecSave == InitSave /\ [][NextSave]_vars

\* saveTransactionsToSupabase called with one account whose transactions vary
\* in amount, date and description
InitTxn ==
  /\ rev \in Revisions
  /\ feeds \in {{p} : p \in ReconcileFeeds}
  /\ InitStore
  /\ catArg = Undefined
  /\ catRet = CatPending

SpecTxn == InitTxn /\ [][NextSave]_vars

\* the scrape result of the racing syncs: two accounts for which the bank
\* gives no number, the first with one described transaction
RaceFeeds ==
  {<<Acct("", NoNum,
          <<Txn(Instant(5, 22), Str(SuperMarket), Num(0 - 120), NoNum)>>),
     Acct("", NoNum, <<>>)>>}

\* one manual sync (task 1) and one run of the nightly job (task 2) whose
\* awaited calls interleave: nothing in the handlers orders them
InitRace ==
  /\ rev \in Revisions
  /\ feeds = RaceFeeds
  /\ InitStore
  /\ catArg = Undefined
  /\ catRet = CatPending

\* the one manual sync of the race
ManualSync == task[1].pc = "idle" /\ SingleRequest(1)

\* the one nightly run of the race
NightlyRun == task[2].pc = "idle" /\ CronFire(2)

NextRace ==
  \/ ManualSync
  \/ NightlyRun
  \/ \E t \in Tasks :
       \/ BatchNext(t)
       \/ ScrapeReturn(t)
       \/ AccountLookup(t)
       \/ AccountUpdate(t)
       \/ AccountInsert(t)
       \/ TxnLookup(t)
       \/ TxnInsert(t)
       \/ StatusWrite(t)

SpecRace == InitRace /\ [][NextRace]_vars

\* the scrape results of the syncs against a store that may fail: an account
\* with two transactions, then an account without a number with one; or an
\* account with two purchases of the same amount at the same shop on one day
FaultFeeds ==
  {<<Acct("A1", Num(100),
          <<Txn(Instant(5, 22), Str(SuperMarket), Num(0 - 120), NoNum),
            Txn(Instant(6, 8), Str(Cafe), Num(0 - 120), NoNum)>>),
     Acct("", NoNum,
          <<Txn(Instant(5, 22), Str(SuperMarket), Num(0 - 120), NoNum)>>)>>,
   <<Acct("A1", Num(100),
          <<Txn(Instant(6, 8), Str(Cafe), Num(0 - 120), NoNum),
            Txn(Instant(6, 8), Str(Cafe), Num(0 - 120), NoNum)>>)>>}

\* single syncs that do not overlap, against a store that may answer a call
\* with an error
InitFault ==
  /\ rev \in Revisions
  /\ feeds = FaultFeeds
  /\ InitStore
  /\ catArg = Undefined
  /\ catRet = CatPending

NextFault ==
  \E t \in SeqTasks :
    \/ SingleRequest(t)
    \/ ScrapeReturn(t)
    \/ AccountLookup(t)
    \/ AccountUpdate(t)
    \/ AccountInsert(t)
    \/ TxnLookup(t)
    \/ TxnInsert(t)
    \/ StatusWrite(t)
    \/ AccountLookupFails(t)
    \/ AccountUpdateFails(t)
    \/ AccountInsertFails(t)
    \/ TxnLookupFails(t)
    \/ TxnInsertFails(t)
    \/ StatusWriteFails(t)

SpecFault == InitFault /\ [][NextFault]_vars

\* the connections of the paired batch runs: two of one tenant whose banks
\* report the same account, one with an unsupported provider id, one whose
\* credentials do not decode, one without auto_sync
PairConnections ==
  << Conn("u1", "hapoalim", "json", TRUE),
     Conn("u2", "bogus", "json", TRUE),
     Conn("u2", "leumi", "garbage", TRUE),
     Conn("u1", "leumi", "json", TRUE),
     Conn("u2", "hapoalim", "json", FALSE) >>

\* a sync-all run (task 1) and then a nightly run (task 2) over the same
\* connections, from the same store and with the same scrape results
InitPair ==
  /\ rev \in Revisions
  /\ feeds \in {{p} : p \in SysFeeds}
  /\ accounts = <<>>
  /\ transactions = <<>>
  /\ bank_connections = PairConnections
  /\ task = [t \in Tasks |-> IdleTask]
  /\ last = BlankAtt
  /\ clock = 0
  /\ catArg = Undefined
  /\ catRet = CatPending

\* the sync-all run of the pair
SyncAllRun == task[1].pc = "idle" /\ SyncAllRequest(1)

\* the sync-all run has answered: its tables are kept and the store is put
\* back to what it was before the run
PutBack ==
  /\ task[1].pc = "done" /\ task[1].kind = "syncall" /\ task[1].res.code = 200
  /\ ~task[1].kept.taken
  /\ task' = [task EXCEPT ![1].kept = [taken |-> TRUE, accounts |-> accounts,
                                       transactions |-> transactions]]
  /\ accounts' = <<>>
  /\ transactions' = <<>>
  /\ UNCHANGED <<rev, feeds, bank_connections, last, clock, catArg, catRet>>

\* the nightly run of the pair, against the store put back
NightlyRunAfter == task[1].kept.taken /\ task[2].pc = "idle" /\ CronFire(2)

\* the scrape of the nightly run resolves as the scrape of the same connection
\* did in the sync-all run
ScrapeReturnSame ==
  /\ task[2].ci \in 1..Len(task[1].fates)
  /\ ScrapeReturn(2)
  /\ LET was == task[1].fates[task[2].ci]
         now == task'[2].att
     IN /\ now.scrapeThrew = was.scrapeThrew
        /\ now.scrapeFailed = was.scrapeFailed
        /\ now.scrapeMsg = was.scrapeMsg
        /\ now.scraped = was.scraped

NextPair ==
  \/ SyncAllRun
  \/ PutBack
  \/ NightlyRunAfter
  \/ ScrapeReturn(1)
  \/ ScrapeReturnSame
  \/ \E t \in Tasks :
       \/ BatchNext(t)
       \/ AccountLookup(t)
       \/ AccountUpdate(t)
       \/ AccountInsert(t)
       \/ TxnLookup(t)
       \/ TxnInsert(t)

SpecPair == InitPair /\ [][NextPair]_vars

\* autoCategorizeTxn applied to one description
InitCat ==
  /\ rev \in Revisions
  /\ feeds = SysFeeds
  /\ InitStore
  /\ catArg \in CatInputs
  /\ catRet = CatPending

NextCat == Categorize

SpecCat == InitCat /\ [][NextCat]_vars

(***************************************************************************)
(* Properties.                                                             *)
(***************************************************************************)
\* a direct call of saveTransactionsToSupabase returned, and the attempt that
\* concluded before it was a call with the same tenant and provider name (and,
\* under SpecSave, the same list of accounts) that returned too
SecondRunReturned(tr) ==
  /\ tr.kind = "save" /\ tr.pc = "done" /\ tr.res.channel = "return"
  /\ tr.att.prev.kind = "save" /\ tr.att.prev.outcome = "success"
  /\ tr.att.prev.userId = tr.userId /\ tr.att.prev.provider = tr.provider

\* C1: running saveTransactionsToSupabase a second time in a row with the same
\* tenant and the same list of accounts returns totalSaved = 0 and inserts no
\* transaction row.
C1_SecondRunSavesNothing ==
  \A t \in Tasks :
    SecondRunReturned(task[t]) =>
      task[t].res.totalSaved = 0 /\ task[t].att.txnInserts = 0

\* the five columns of the uniqueness key agree
SameTuple(r1, r2) ==
  /\ r1.user_id = r2.user_id
  /\ r1.account_id = r2.account_id
  /\ r1.amount = r2.amount
  /\ r1.date = r2.date
  /\ r1.description = r2.description

\* C2: no two stored transaction rows agree on tenant id, account id, amount,
\* date and description.
C2_TransactionTupleUnique ==
  \A i, j \in 1..Len(transactions) :
    SameTuple(transactions[i], transactions[j]) => i = j

\* the lookup key of an account snapshot, as the data model states it: the
\* account number, or the provider label when there is none
KeyOf(account, providerLabel) ==
  IF account.accountNumber = "" THEN providerLabel ELSE account.accountNumber

RowsOf(userId, number) ==
  {i \in 1..Len(accounts) :
     accounts[i].user_id = userId /\ accounts[i].account_number = number}

\* the store holds at most one account row per (tenant id, account number)
AccountKeyUnique ==
  \A i, j \in 1..Len(accounts) :
    (/\ accounts[i].user_id = accounts[j].user_id
     /\ accounts[i].account_number = accounts[j].account_number) => i = j

\* while the transactions of an account are processed, accountId is the one
\* row of the snapshot's key and that row carries the snapshot's balance; the
\* snapshots already reconciled in this call have exactly one row each
AccountResolved(tr) ==
  /\ tr.pc \in {"txn_lookup", "txn_insert"} =>
       LET a == tr.accts[tr.ai]
       IN /\ RowsOf(tr.userId, KeyOf(a, tr.provider)) = {tr.accountId}
          /\ accounts[tr.accountId].id = tr.accountId
          /\ accounts[tr.accountId].balance =
               (IF a.balance.def THEN a.balance.n ELSE 0)
  /\ tr.pc \in {"acct_lookup", "acct_update", "acct_insert", "txn_lookup",
                "txn_insert"} =>
       \A k \in 1..(tr.ai - 1) :
         Cardinality(RowsOf(tr.userId, KeyOf(tr.accts[k], tr.provider))) = 1

\* a step keeps the id, the tenant and the number of every account row, and
\* adds at most one row, whose key no row had
AccountRowsStable ==
  /\ Len(accounts') \in {Len(accounts), Len(accounts) + 1}
  /\ \A i \in 1..Len(accounts) :
       /\ accounts'[i].id = accounts[i].id
       /\ accounts'[i].user_id = accounts[i].user_id
       /\ accounts'[i].account_number = accounts[i].account_number
  /\ Len(accounts') = Len(accounts) + 1 =>
       LET n == accounts'[Len(accounts')]
       IN n.id = Len(accounts') /\ RowsOf(n.user_id, n.account_number) = {}

\* C3: a snapshot without a row for (tenant id, account number or provider
\* label) gets exactly one row; every later reconciliation of the key resolves
\* to that row, updates its balance and creates no second row.
C3_AccountFoundOrCreatedOnce ==
  /\ [](AccountKeyUnique /\ \A t \in Tasks : AccountResolved(task[t]))
  /\ [][AccountRowsStable]_vars

\* a call after a call of the same tenant went through the update branch only,
\* and the store holds the one row of the first call
C3_Witness ==
  \E t \in Tasks :
    /\ SecondRunReturned(task[t])
    /\ task[t].att.acctInserts = 0 /\ task[t].att.acctUpdates >= 1
    /\ Len(accounts) = 1

\* a sync-all request or a nightly run reached its end (the 401 of sync-all
\* aside)
BatchEnded(tr) ==
  /\ tr.kind \in {"syncall", "cron"}
  /\ tr.pc = "done"
  /\ tr.att.outcome # "rejected"

\* the attempt a failed in one of the ways the loop body can fail: the
\* credentials, the scrape (thrown or reported), the reconciliation
ConnectionFailed(conn, a) ==
  \/ conn.encrypted_credentials # "json"
  \/ a.scrapeThrew
  \/ a.scrapeFailed
  \/ a.threw

\* the failure of attempt a is on record: an entry of results with success
\* false in sync-all, an error line in the nightly log
FailureRecorded(tr, a) ==
  LET record == IF tr.kind = "syncall" THEN tr.results ELSE tr.log
  IN \E k \in 1..Len(record) :
       /\ record[k].provider = a.provider
       /\ record[k].userId = a.userId
       /\ ~record[k].success
       /\ record[k].error = a.error

\* C4: in a sync-all or nightly run, a connection whose credentials do not
\* decode, whose scrape fails or whose reconciliation throws is recorded with
\* success false and the error message, every connection of the list is
\* processed up to the last one, and the batch itself ends in success.
C4_BatchIsolatesFailures ==
  \A t \in Tasks :
    LET tr == task[t]
    IN BatchEnded(tr) =>
         /\ tr.res.success
         /\ Len(tr.fates) = Len(tr.conns)
         /\ \A i \in 1..Len(tr.conns) :
              LET conn == tr.conns[i]
                  a == tr.fates[i]
              IN /\ a.userId = conn.user_id
                 /\ a.provider = conn.provider
                 /\ a.outcome \in {"success", "error", "skipped"}
                 /\ (conn.encrypted_credentials = "json"
                       /\ conn.provider \in PROVIDER_MAP => a.scrapes = 1)
                 /\ (ConnectionFailed(conn, a) =>
                       /\ a.outcome = "error"
                       /\ a.error # ""
                       /\ (a.scrapeFailed /\ a.scrapeMsg # ""
                             => a.error = a.scrapeMsg)
                       /\ FailureRecorded(tr, a))

\* a batch ended in which a connection whose reconciliation threw and an
\* undecodable connection were each followed by a connection that succeeded
C4_Witness ==
  \E t \in Tasks :
    /\ BatchEnded(task[t])
    /\ \E i, k, m \in 1..Len(task[t].fates) :
         /\ i < m /\ k < m
         /\ task[t].fates[i].threw
         /\ task[t].conns[k].encrypted_credentials # "json"
         /\ task[t].fates[m].outcome = "success"

\* sync-all answered with its results
SyncAllEnded(tr) ==
  tr.kind = "syncall" /\ tr.pc = "done" /\ tr.res.code = 200

\* the entry e of results is the one of connection conn, whose attempt was a
EntryShows(e, conn, a) ==
  /\ e.provider = conn.provider
  /\ e.userId = conn.user_id
  /\ IF a.outcome = "success"
     THEN /\ e.success
          /\ e.totalSaved = a.txnInserts
          /\ e.totalSkipped = a.txnFound
     ELSE /\ ~e.success
          /\ e.error # ""

Skipped(conn) ==
  conn.encrypted_credentials = "json" /\ conn.provider \notin PROVIDER_MAP

RECURSIVE KeptFrom(_, _)
\* the indices from i on of the connections that are not skipped, in order
KeptFrom(conns, i) ==
  IF i > Len(conns) THEN <<>>
  ELSE IF Skipped(conns[i]) THEN KeptFrom(conns, i + 1)
  ELSE <<i>> \o KeptFrom(conns, i + 1)

StatusWriter(a) ==
  rev = "part_000" /\ a.kind = "single" /\ a.scrapes >= 1

\* the attempt a concluded
Concluded(a) == a.outcome \in {"success", "error", "skipped"}

\* the one row of the connection of attempt a carries the outcome of a: the
\* status, the time of the attempt, and the accounts count of a success or the
\* message of an error
StatusShows(a) ==
  \E i \in 1..Len(bank_connections) :
    LET row == bank_connections[i]
    IN /\ row.user_id = a.userId /\ row.provider = a.provider
       /\ \A j \in 1..Len(bank_connections) :
            bank_connections[j].user_id = a.userId
              /\ bank_connections[j].provider = a.provider => j = i
       /\ row.status = a.outcome
       /\ row.last_sync = a.seq
       /\ (a.outcome = "success" => row.accounts_count = a.scraped)
       /\ (a.outcome = "error" => row.error_message = a.error)

StatusWrittenBySingleSyncOnly ==
  bank_connections' # bank_connections =>
    /\ rev = "part_000"
    /\ \E t \in Tasks : task[t].kind = "single" /\ task[t].pc = "status"

ScrapeFailedWithMessage(a) ==
  Concluded(a) /\ a.scrapeFailed /\ a.scrapeMsg # ""

\* the attempt a made no call to the accounts or the transactions
NoReconciliation(a) ==
  /\ a.acctReads = 0 /\ a.acctInserts = 0 /\ a.acctUpdates = 0
  /\ a.txnReads = 0 /\ a.txnInserts = 0

\* the attempt a failed with the message of the scrape and produced no counts
FailsWithScrapeMessage(a) ==
  /\ a.outcome = "error"
  /\ a.error = a.scrapeMsg
  /\ ~a.report.success
  /\ ~a.report.stats
  /\ NoReconciliation(a)

Unsupported(a) ==
  Concluded(a) /\ a.checked /\ a.provider \notin PROVIDER_MAP

\* the attempt a touched neither the scraper nor the store
NothingDone(a) ==
  a.scrapes = 0 /\ NoReconciliation(a) /\ a.statusWrites = 0

LowerCased(s) ==
  [i \in 1..Len(s) |-> IF s[i] \in 65..90 THEN s[i] + 32 ELSE s[i]]

\* the keyword kw occurs in s as a run of consecutive letters
Occurs(kw, s) ==
  \E start \in 0..Len(s) :
    /\ start + Len(kw) <= Len(s)
    /\ \A j \in 1..Len(kw) : s[start + j] = kw[j]

\* the positions, in the rule list of revision r, of the rules with a keyword
\* that occurs in the lower-cased description
MatchingRules(r, s) ==
  {i \in 1..Len(rules(r)) :
     \E k \in 1..Len(rules(r)[i].keywords) :
       Occurs(rules(r)[i].keywords[k], LowerCased(s))}

\* C9: for every description, autoCategorizeTxn returns the category of the
\* first rule of the list with a keyword that occurs in the lower-cased
\* description, so with keywords of two rules present the earlier rule wins;
\* it returns null when no rule has one.
C9_FirstMatchingRuleWins ==
  catRet.done /\ catArg.t = "string" =>
    LET hits == MatchingRules(rev, catArg.s)
    IN /\ ~catRet.throws
       /\ catRet.category =
            IF hits = {} THEN NoCategory
            ELSE rules(rev)[CHOOSE i \in hits : \A j \in hits : i <= j].category

\* a description with keywords of two rules of different categories got the
\* category of the earlier rule, and the keyword of the later rule stands
\* first in the text
C9_Witness ==
  /\ catRet.done /\ catArg.t = "string"
  /\ \E i, j \in MatchingRules(rev, catArg.s) :
       /\ i < j
       /\ \A m \in MatchingRules(rev, catArg.s) : i <= m
       /\ rules(rev)[i].category # rules(rev)[j].category
       /\ catRet.category = rules(rev)[i].category
  /\ rev = "part_001"

\* a non-empty keyword of some rule of revision r occurs in the lower-cased s
HasKeyword(r, s) ==
  \E i \in 1..Len(rules(r)) :
    \E k \in 1..Len(rules(r)[i].keywords) :
      /\ rules(r)[i].keywords[k] # <<>>
      /\ Occurs(rules(r)[i].keywords[k], LowerCased(s))

\* C10: for every non-empty description that contains none of the category
\* keywords, autoCategorizeTxn returns null and raises no error.
C10_NoKeywordReturnsNull ==
  catRet.done /\ catArg.t = "string" /\ catArg.s # <<>>
    /\ ~HasKeyword(rev, catArg.s) =>
      ~catRet.throws /\ catRet.category = NoCategory

\* C11: for an empty or absent description (the empty string, undefined or
\* null) autoCategorizeTxn returns null and raises no error.
C11_AbsentDescriptionReturnsNull ==
  catRet.done /\ Falsy(catArg) =>
    ~catRet.throws /\ catRet.category = NoCategory

\* the amount the claim reads: chargedAmount when it is present, 0 included,
\* and originalAmount otherwise
ClaimedAmount(txn) ==
  IF txn.chargedAmount.def THEN txn.chargedAmount ELSE txn.originalAmount

\* the row written by the insert of txn is the row the claim describes
RowAsClaimed(row, txn) ==
  LET x == ClaimedAmount(txn)
  IN /\ row.amount = [def |-> TRUE, n |-> IF x.n < 0 THEN 0 - x.n ELSE x.n]
     /\ row.type = (IF x.n >= 0 THEN "income" ELSE "expense")
     /\ row.category_id = autoCategorizeTxn(rev, txn.description).category
     /\ (txn.description = Str(SuperMarket) /\ x = Num(0 - 120) =>
           /\ row.amount = Num(120)
           /\ row.type = "expense"
           /\ row.category_id = 1)

\* C12: every inserted row has amount = |x|, type income when x >= 0 and
\* expense when x < 0, for x = chargedAmount when present (0 included) and
\* originalAmount otherwise, and the category of its description; SuperMarket
\* with chargedAmount -120 is stored with amount 120, type expense and
\* category 1.
C12_InsertedRowFollowsAmount ==
  [][\A t \in Tasks :
       task[t].pc = "txn_insert" /\ task'[t].att.txnInserts = task[t].att.txnInserts + 1
         /\ Len(transactions') = Len(transactions) + 1 =>
           RowAsClaimed(transactions'[Len(transactions')],
                        task[t].accts[task[t].ai].txns[task[t].ti])]_vars

\* the first call of saveTransactionsToSupabase, on a store with no
\* transaction, returned; its one account carried two transactions
FirstRunOfPairReturned(tr) ==
  /\ tr.kind = "save" /\ tr.pc = "done" /\ tr.res.channel = "return"
  /\ tr.att.prev.kind = "none"
  /\ Len(tr.accts) = 1
  /\ Len(tr.accts[1].txns) = 2

\* C13: within one account's list reconciled against a store with no matching
\* row, the later of two transactions is skipped only if the two agree on
\* amount, calendar date and description; two with the same amount and date
\* and different descriptions are both inserted and both counted as saved.
C13_DedupOnlyOnFullAgreement ==
  \A t \in Tasks :
    LET tr == task[t]
        a == tr.accts[1].txns[1]
        b == tr.accts[1].txns[2]
    IN FirstRunOfPairReturned(tr) =>
         /\ (tr.res.totalSkipped >= 1 =>
               /\ txnAmount(a) = txnAmount(b)
               /\ a.date.day = b.date.day
               /\ a.description = b.description)
         /\ (txnAmount(a) = txnAmount(b) /\ a.date.day = b.date.day
               /\ a.description # b.description =>
                 /\ tr.res.totalSaved = 2
                 /\ tr.res.totalSkipped = 0
                 /\ Len(transactions) = 2)

\* C14: when the reconciliation of one account of a scrape result raises an
\* error, the accounts after it in the same result are still reconciled: each
\* of them is looked up, found or created.
C14_LaterAccountsStillReconciled ==
  \A t \in Tasks :
    task[t].pc = "done" /\ task[t].kind = "save" /\ task[t].att.threw =>
      task[t].att.acctReads = Len(task[t].accts)

\* the row the task tr is about to insert
PendingRow(tr) ==
  transactionRow(tr.userId, tr.accountId, tr.accts[tr.ai].txns[tr.ti])

\* a row equal to row on the five columns is stored
Stored(row) ==
  \E i \in 1..Len(transactions) : SameTuple(transactions[i], row)

\* the step is the insert of a transaction by task t
InsertsTransaction(t) ==
  /\ task[t].pc = "txn_insert"
  /\ task'[t].att.txnInserts = task[t].att.txnInserts + 1

\* C15: two syncs of one connection that run at the same time are not
\* serialized: a sync that has passed the duplicate lookup inserts its row
\* even when the other sync has stored the same transaction in between, so
\* that the store holds two rows with the same five-column tuple.
C15_RacingInsertNotRechecked ==
  [][\A t \in Tasks :
       InsertsTransaction(t) /\ Stored(PendingRow(task[t])) =>
         /\ transactions' = Append(transactions, PendingRow(task[t]))
         /\ \E i, j \in 1..Len(transactions') :
              i # j /\ SameTuple(transactions'[i], transactions'[j])]_vars

\* a manual sync and the nightly job of the same connection both found no row
\* for the same described transaction and both inserted it
C15_Witness ==
  /\ task[1].kind = "single" /\ task[2].kind = "cron"
  /\ \E a \in {task[1].att} \cup {task[2].fates[k] : k \in 1..Len(task[2].fates)} :
       \E b \in {task[2].att} \cup {task[2].fates[k] : k \in 1..Len(task[2].fates)} :
         /\ a.kind = "single" /\ b.kind = "cron"
         /\ a.userId = b.userId /\ a.provider = b.provider
         /\ a.txnInserts = 1 /\ b.txnInserts = 1
         /\ a.txnFound = 0 /\ b.txnFound = 0
  /\ \E i, j \in 1..Len(transactions) :
       /\ i # j
       /\ SameTuple(transactions[i], transactions[j])
       /\ transactions[i].description = SuperMarket

\* a task that stands at a transaction holds the id of an account row
AccountIdYielded ==
  \A t \in Tasks :
    task[t].pc \in {"txn_lookup", "txn_insert"} => task[t].accountId # 0

\* every stored transaction row refers to an account row of the same tenant
NoOrphanRows ==
  \A i \in 1..Len(transactions) :
    \E j \in 1..Len(accounts) :
      /\ accounts[j].id = transactions[i].account_id
      /\ accounts[j].user_id = transactions[i].user_id

\* the step in which an account insert yields no id goes on to the next
\* account and leaves the counts and the transactions as they were
SkipsAccountWithoutId ==
  \A t \in Tasks :
    task'[t].att.acctInsertFails = task[t].att.acctInsertFails + 1 =>
      /\ task'[t].ai = task[t].ai + 1
      /\ (task'[t].ai <= Len(task[t].accts) => task'[t].pc = "acct_lookup")
      /\ task'[t].totalSaved = task[t].totalSaved
      /\ task'[t].totalSkipped = task[t].totalSkipped
      /\ task'[t].att.txnReads = task[t].att.txnReads
      /\ task'[t].att.txnInserts = task[t].att.txnInserts
      /\ transactions' = transactions

\* C16: when the creation of an account row yields no id, none of the
\* account's transactions is looked up or inserted, the counts do not change
\* and the next account follows; so every stored transaction row refers to an
\* existing account row of the same tenant.
C16_NoIdNoTransactions ==
  /\ [](AccountIdYielded /\ NoOrphanRows)
  /\ [][SkipsAccountWithoutId]_vars

\* a first sync whose first account could not be created stored the one
\* transaction of its second account and none of the first
C16_Witness ==
  /\ last.outcome = "success"
  /\ last.prev.kind = "none"
  /\ last.acctInsertFails = 1
  /\ last.acctInserts = 1
  /\ last.txnInserts = 1
  /\ Len(transactions) = 1

\* the step is the account lookup of task t, and more than one stored row
\* matches its tenant and account number
LookupReportsSeveral(t) ==
  /\ task[t].pc = "acct_lookup"
  /\ task'[t].att.acctReads = task[t].att.acctReads + 1
  /\ Cardinality(accountMatches(task[t].userId,
                                lookupAccountNumber(task[t].accts[task[t].ai],
                                                    task[t].provider))) > 1

\* C17: when the account lookup reports more than one matching row, the
\* account is given up as an integrity fault: no account row is created or
\* updated for it and none of its transactions is inserted.
C17_SeveralMatchesGiveUpAccount ==
  [][\A t \in Tasks :
       LookupReportsSeveral(t) =>
         /\ task'[t].pc \notin {"acct_insert", "acct_update", "txn_lookup",
                                "txn_insert"}
            \/ task'[t].ai > task[t].ai]_vars

\* the attempt a got an error from the store for a duplicate lookup or an
\* insert of a transaction
TransactionCallFailed(a) == Concluded(a) /\ a.txnErrors >= 1

\* C18: when a duplicate lookup or an insert of a transaction fails with an
\* error of the store, the reconciliation stops with a fatal error: the
\* attempt fails, the transactions after the failed one are not processed and
\* the failed transaction is not counted as saved.
C18_TransactionErrorIsFatal ==
  TransactionCallFailed(last) =>
    /\ last.outcome = "error"
    /\ ~last.report.success
    /\ last.report.totalSaved <= last.txnInserts

\* the scrape or the reconciliation of attempt a raised an error
AttemptRaised(a) == a.scrapeThrew \/ a.scrapeFailed \/ a.threw

\* C19: a failed write of the connection status is not raised out of the sync
\* attempt: the attempt makes that one status write and reports what it would
\* have reported otherwise, success with the counts after a successful
\* reconciliation, the original error after a failed one.
C19_StatusWriteFailureNotRaised ==
  /\ \A t \in Tasks : task[t].att.statusWrites <= 1
  /\ Concluded(last) /\ last.statusFailed =>
       /\ last.statusWrites = 1
       /\ IF AttemptRaised(last)
          THEN /\ last.outcome = "error"
               /\ last.report.code = 500
               /\ ~last.report.success
               /\ last.error # "upsert failed"
               /\ (last.scrapeFailed /\ last.scrapeMsg # "" =>
                     last.error = last.scrapeMsg)
          ELSE /\ last.outcome = "success"
               /\ last.report.code = 200
               /\ last.report.success
               /\ last.report.stats
               /\ last.report.accountsCount = last.scraped

\* a single sync of part_000 stored transactions, got an error for its status
\* write and answered success all the same
C19_Witness ==
  /\ rev = "part_000"
  /\ last.kind = "single"
  /\ last.statusFailed
  /\ last.outcome = "success"
  /\ last.report.code = 200
  /\ last.txnInserts >= 1

\* the task tr runs the loop of sync-all or of the nightly job
InBatch(tr) ==
  /\ tr.kind \in {"syncall", "cron"}
  /\ tr.pc \in {"conn", "scrape", "acct_lookup", "acct_update", "acct_insert",
                "txn_lookup", "txn_insert"}

\* the connections before the current one have concluded, one attempt each in
\* the order of the list; the current one is the only one in progress
OneConnectionAtATime(tr) ==
  /\ Len(tr.fates) = tr.ci - 1
  /\ \A i \in 1..Len(tr.fates) :
       /\ i <= Len(tr.conns)
       /\ tr.fates[i].userId = tr.conns[i].user_id
       /\ tr.fates[i].provider = tr.conns[i].provider
       /\ Concluded(tr.fates[i])
       /\ tr.fates[i].scrapes <= 1
  /\ tr.pc # "conn" =>
       /\ tr.ci <= Len(tr.conns)
       /\ tr.att.userId = tr.conns[tr.ci].user_id
       /\ tr.att.provider = tr.conns[tr.ci].provider
       /\ tr.att.outcome = "running"
       /\ tr.att.scrapes <= 1
       /\ tr.pc = "scrape" => tr.att.scrapes = 0 /\ NoReconciliation(tr.att)

\* a step of the loop leaves the attempts of the concluded connections as
\* they are
ConcludedStayConcluded ==
  \A t \in Tasks :
    InBatch(task[t]) /\ task'[t].kind = task[t].kind
      /\ task'[t].pc # "idle" =>
        /\ Len(task'[t].fates) >= Len(task[t].fates)
        /\ \A i \in 1..Len(task[t].fates) :
             task'[t].fates[i] = task[t].fates[i]

\* C20: within one run of sync-all or of the nightly job the connections are
\* processed one at a time in the order of the list: the scrape of a
\* connection starts only when the scrape and the store calls of every
\* connection before it have finished, in success or in failure, and each
\* connection is scraped at most once.
C20_BatchOneAtATimeInOrder ==
  /\ [](\A t \in Tasks :
          /\ InBatch(task[t]) => OneConnectionAtATime(task[t])
          /\ BatchEnded(task[t]) =>
               /\ Len(task[t].fates) = Len(task[t].conns)
               /\ \A i \in 1..Len(task[t].fates) :
                    /\ task[t].fates[i].userId = task[t].conns[i].user_id
                    /\ task[t].fates[i].provider = task[t].conns[i].provider
                    /\ task[t].fates[i].scrapes <= 1)
  /\ [][ConcludedStayConcluded]_vars

\* a batch stands at the scrape of a later connection after an earlier
\* connection failed in its scrape and another one wrote to the store
C20_Witness ==
  \E t \in Tasks :
    /\ InBatch(task[t]) /\ task[t].pc = "scrape"
    /\ \E i \in 1..Len(task[t].fates) :
         /\ task[t].fates[i].scrapeFailed
         /\ task[t].fates[i].scrapes = 1
    /\ Len(task[t].fates) >= 2

\* a direct call of saveTransactionsToSupabase aborted at the transaction ti
\* of the account ai
AbortedAtTransaction(tr) ==
  tr.kind = "save" /\ tr.pc = "done" /\ tr.att.threw

\* a stored row of the account of tr carries the transaction txn
RowOfTransaction(tr, txn) ==
  \E i \in 1..Len(transactions) :
    /\ transactions[i].user_id = tr.userId
    /\ transactions[i].account_id = tr.accountId
    /\ transactions[i].amount = txnAmount(txn)
    /\ transactions[i].date = isoDay(txn.date)
    /\ transactions[i].description \in {storedDescription(txn),
                                        filterText(txn.description)}

\* the step in which a task aborts leaves the accounts and the transactions
\* as they are
AbortLeavesStore ==
  \A t \in Tasks :
    task'[t].att.threw /\ ~task[t].att.threw =>
      transactions' = transactions /\ accounts' = accounts

\* C21: when the reconciliation of an account's list aborts at its k-th
\* transaction, the rows of the k-1 transactions before it stay in the store,
\* nothing is rolled back, and the account row keeps the balance written
\* before the transactions were processed.
C21_AbortKeepsEarlierRows ==
  /\ [](\A t \in Tasks :
          LET tr == task[t]
          IN AbortedAtTransaction(tr) =>
               /\ tr.accountId \in 1..Len(accounts)
               /\ accounts[tr.accountId].balance =
                    balanceOrZero(tr.accts[tr.ai])
               /\ Len(transactions) >= tr.att.txnInserts
               /\ \A j \in 1..(tr.ti - 1) :
                    RowOfTransaction(tr, tr.accts[tr.ai].txns[j]))
  /\ [][AbortLeavesStore]_vars

\* a call aborted at the second transaction of an account with a balance
\* after it had inserted the first
C21_Witness ==
  \E t \in Tasks :
    /\ AbortedAtTransaction(task[t])
    /\ task[t].ti = 2
    /\ task[t].att.txnInserts = 1
    /\ task[t].accts[task[t].ai].balance.def
    /\ Len(transactions) >= 1

\* the rows without the time of the run that wrote them
Timeless(rows) ==
  [i \in 1..Len(rows) |-> [rows[i] EXCEPT !.last_sync = 0]]

\* two batch runs did the same to one connection: the same scrape and the
\* same calls of the store, with the same end
SameFate(a, b) ==
  /\ a.userId = b.userId /\ a.provider = b.provider
  /\ a.scrapes = b.scrapes /\ a.scraped = b.scraped
  /\ a.acctReads = b.acctReads /\ a.acctInserts = b.acctInserts
  /\ a.acctUpdates = b.acctUpdates
  /\ a.txnReads = b.txnReads /\ a.txnInserts = b.txnInserts
  /\ a.outcome = b.outcome /\ a.error = b.error

\* the nightly run that follows the sync-all run has ended
PairEnded ==
  /\ task[1].kept.taken
  /\ task[2].kind = "cron" /\ task[2].pc = "done"

\* C22: given the same connections, the same scrape results and the same
\* initial store, the nightly run and the sync-all run perform the same
\* sequence of scrapes and leave the accounts and the transactions in the same
\* final state; the nightly run returns no outcome list.
C22_NightlyRunEqualsSyncAll ==
  /\ task[2].kind = "cron" =>
       /\ task[2].conns = task[1].conns
       /\ Len(task[2].fates) <= Len(task[1].fates)
       /\ \A k \in 1..Len(task[2].fates) :
            SameFate(task[2].fates[k], task[1].fates[k])
       /\ task[2].pc = "scrape" => task[1].fates[task[2].ci].scrapes = 1
       /\ task[2].results = <<>>
  /\ PairEnded =>
       /\ Len(task[2].fates) = Len(task[1].fates)
       /\ Timeless(accounts) = Timeless(task[1].kept.accounts)
       /\ transactions = task[1].kept.transactions

\* both runs have ended after two scrapes each, the first of which added an
\* account and transactions and the second of which found them
C22_Witness ==
  /\ PairEnded
  /\ Len(task[1].results) >= 2
  /\ Len(transactions) >= 1
  /\ \E k \in 1..Len(task[2].fates) : task[2].fates[k].acctUpdates = 1
  /\ \E k \in 1..Len(task[2].fates) : task[2].fates[k].outcome = "error"
  /\ \E k \in 1..Len(task[2].fates) : task[2].fates[k].outcome = "skipped"

\* the stored transaction rows stay where they are with all their fields
TransactionsOnlyAppended ==
  /\ Len(transactions') >= Len(transactions)
  /\ \A i \in 1..Len(transactions) : transactions'[i] = transactions[i]

\* no account row goes away, and an existing one changes in its balance and
\* its last_sync at most
AccountsOnlyRefreshed ==
  /\ Len(accounts') >= Len(accounts)
  /\ \A i \in 1..Len(accounts) :
       accounts'[i] = [accounts[i] EXCEPT !.balance = accounts'[i].balance,
                                          !.last_sync = accounts'[i].last_sync]

\* C23: no sync updates or deletes a stored transaction row and no sync
\* deletes an account row: the transaction rows only grow in number and keep
\* all their field values, and on an existing account row a sync changes the
\* balance and the last-sync timestamp only.
C23_RowsOnlyAppendedOrRefreshed ==
  [][TransactionsOnlyAppended /\ AccountsOnlyRefreshed]_vars

\* a later sync has refreshed an account row of an earlier one while the
\* store held transactions
C23_Witness ==
  /\ Len(transactions) >= 1
  /\ \E i \in 1..Len(accounts) : accounts[i].last_sync = 2
  /\ \E t \in Tasks : task[t].att.acctUpdates >= 1 /\ task[t].att.seq = 2

\* the rows of a table that belong to other tenants than userId, in order
RowsOfOthers(rows, userId) ==
  SelectSeq(rows, LAMBDA r : r.user_id # userId)

\* the tenant for whom task t reconciles while it is between store calls
Reconciling(t) ==
  task[t].pc \in {"acct_lookup", "acct_update", "acct_insert", "txn_lookup",
                  "txn_insert"}

\* C24: a sync run for tenant A leaves every account row and every
\* transaction row of another tenant unchanged and creates no row with
\* another tenant id, also when another tenant has an account with the same
\* account number or a transaction with the same amount, date and
\* description.
C24_OtherTenantsUntouched ==
  [][\A t \in Tasks :
       Reconciling(t) /\ task'[t] # task[t] =>
         /\ RowsOfOthers(accounts', task[t].userId) =
              RowsOfOthers(accounts, task[t].userId)
         /\ RowsOfOthers(transactions', task[t].userId) =
              RowsOfOthers(transactions, task[t].userId)]_vars

\* a sync of one tenant has added an account and a transaction while another
\* tenant held an account with the same number and a transaction with the
\* same amount, date and description
C24_Witness ==
  \E i, j \in 1..Len(accounts) : \E k, l \in 1..Len(transactions) :
    /\ accounts[i].user_id # accounts[j].user_id
    /\ accounts[i].account_number = accounts[j].account_number
    /\ transactions[k].account_id = i /\ transactions[l].account_id = j
    /\ transactions[k].user_id = accounts[i].user_id
    /\ transactions[l].user_id = accounts[j].user_id
    /\ transactions[k].amount = transactions[l].amount
    /\ transactions[k].date = transactions[l].date
    /\ transactions[k].description = transactions[l].description

\* saveTransactionsToSupabase returned to the handler of the attempt a, which
\* reported its counts
SaveReturned(a) ==
  Concluded(a) /\ a.outcome = "success" /\ a.report.stats

\* C25: when saveTransactionsToSupabase returns, totalSaved is the number of
\* transaction rows the call added to the store, and totalSaved +
\* totalSkipped is the number of transactions in the accounts for which an
\* account id was obtained, also when the store rejects an insert.
C25_CountsMatchRowsAdded ==
  SaveReturned(last) =>
    /\ last.report.totalSaved = last.txnInserts
    /\ last.report.totalSaved + last.report.totalSkipped = last.txnsDue

\* task t looks its next transaction up, the store answers, and two or more
\* stored rows carry the tuple of that transaction
LookupOfRepeatedTuple(t) ==
  /\ task[t].pc = "txn_lookup"
  /\ task'[t].att.txnReads = task[t].att.txnReads + 1
  /\ task'[t].att.faults = task[t].att.faults
  /\ Cardinality(transactionMatches(task[t].userId, task[t].accountId,
                   task[t].accts[task[t].ai].txns[task[t].ti])) >= 2

\* C26: if the store holds two or more transaction rows with the same tenant
\* id, account id, amount, date and description, a later sync that carries a
\* transaction with that tuple counts it as skipped and inserts nothing, so
\* the number of rows with that tuple does not grow.
C26_RepeatedTupleIsSkipped ==
  [][\A t \in Tasks :
       LookupOfRepeatedTuple(t) =>
         /\ task'[t].totalSkipped = task[t].totalSkipped + 1
         /\ task'[t].pc # "txn_insert"]_vars

\* C27: in part_000 a connection with auto_sync enabled stays eligible for
\* the sync-all batch after any sequence of single syncs of it, successful or
\* failed: the status a single sync writes never excludes the connection from
\* the selection of sync-all.
C27_SingleSyncKeepsEligible ==
  rev = "part_000" =>
    \A i \in 1..Len(InitialConnections) :
      bank_connections[i].auto_sync => syncAllEligible(bank_connections[i])

====
